---------------------------- MODULE Spec2Model ----------------------------
(***************************************************************************)
(* Session store of the zero-knowledge authentication server               *)
(* (internal/database/database.go): the users, auth_sessions and           *)
(* active_sessions tables, the handlers of Database that read and write    *)
(* them, and the transaction of CreateActiveSession, whose statements      *)
(* interleave with the other handlers.                                     *)
(*                                                                         *)
(* Time is one discrete clock `now`, read by time.Now() and by the         *)
(* database's NOW() / CURRENT_TIMESTAMP alike.  The n-th value returned by *)
(* uuid.New() is named n: a uuid is never returned twice.                  *)
(***************************************************************************)
EXTENDS Integers, Sequences, FiniteSets, TLC

\* ------------------------------------------------------------------ bounds
\* The clock stops ticking at MaxTime.
MaxTime == 1
\* uuid.New() is called at most MaxUuid times: the challenges and sessions
\* inserted are MaxUuid at most.
MaxUuid == 2
\* The same, where CreateActiveSession calls run together.
MaxVerifyUuid == 4
\* INSERT INTO users is executed at most MaxUserSeq times.
MaxUserSeq == 2

\* ------------------------------------------------------------------ inputs
Nil == "nil"
Usernames == {"alice", "bob"}
\* A *big.Int is <<n>>, pointing to the integer n, or <<>>, the nil pointer.
Big(n) == <<n>>
BigNil == <<>>
\* Commitment values given to RegisterUser.
Commitments == {Big(0), Big(7), Big(-12), Big(105), BigNil}
\* The commitments of the registrations that run beside the other calls.
RegisterCommitments == {Big(7), Big(-12)}
\* The transcripts (c, r1, r2) given to CreateAuthSession.
Transcripts == {<<Big(5), Big(31), Big(-4)>>}
ChallengeTtls == {-1, 0, 1}
SessionTtls == {0, 2}
\* The ttls of the calls that run together, at one time of the clock: a
\* challenge is live, or expired and open to the sweep.
VerifyChallengeTtls == {-1, 1}
VerifySessionTtls == {1}
Txs == {1, 2}
\* An auth or session id that uuid.New() never returns.
NeverId == 0

VARIABLES
    now,                \* the clock
    users,              \* table users
    users_id_seq,       \* last value of the SERIAL of users.id
    auth_sessions,      \* table auth_sessions (committed rows)
    auth_sessions_id_seq,
    active_sessions,    \* table active_sessions (committed rows)
    active_sessions_id_seq,
    uuid_seq,           \* number of calls of uuid.New() so far
    tx,                 \* the CreateActiveSession calls in flight
    ret,                \* what the handler that returned in the last step returned
    issued,             \* history: authID -> the session ids returned for it
    created,            \* history: authID -> the arguments of its CreateAuthSession
    registered          \* history: username -> the commitments it registered

\* Two values of ret are compared by their op and err first: the arg and val
\* of one handler are of one kind, those of two handlers need not be.
vars == <<ret.op, ret.err, now, users, users_id_seq, auth_sessions,
          auth_sessions_id_seq, active_sessions, active_sessions_id_seq,
          uuid_seq, tx, ret, issued, created, registered>>

tables == <<users, auth_sessions, active_sessions>>

\* ---------------------------------------------------- math/big text forms
Digit(d) == CASE d = 0 -> "0" [] d = 1 -> "1" [] d = 2 -> "2" [] d = 3 -> "3"
              [] d = 4 -> "4" [] d = 5 -> "5" [] d = 6 -> "6" [] d = 7 -> "7"
              [] d = 8 -> "8" [] d = 9 -> "9"

DigitValue(ch) == CASE ch = "0" -> 0 [] ch = "1" -> 1 [] ch = "2" -> 2
                    [] ch = "3" -> 3 [] ch = "4" -> 4 [] ch = "5" -> 5
                    [] ch = "6" -> 6 [] ch = "7" -> 7 [] ch = "8" -> 8
                    [] ch = "9" -> 9 [] OTHER -> -1

RECURSIVE NatText(_)
NatText(n) == IF n < 10 THEN <<Digit(n)>>
              ELSE NatText(n \div 10) \o <<Digit(n % 10)>>

\* A String() that loses the sign.
IntString_Unsigned(x) ==
    IF x = BigNil THEN <<"<", "n", "i", "l", ">">>
    ELSE NatText(IF x[1] < 0 THEN -x[1] ELSE x[1])

\* (*big.Int).String(): base-10 text, "-" before a negative value, "<nil>"
\* for a nil pointer.
IntString(x) ==
    IF x = BigNil THEN <<"<", "n", "i", "l", ">">>
    ELSE IF x[1] < 0 THEN <<"-">> \o NatText(-x[1])
    ELSE NatText(x[1])

RECURSIVE ScanDigits(_, _)
\* The value of the digits of s read after the value acc, -1 when s holds a
\* character that is no digit.
ScanDigits(s, acc) ==
    IF s = <<>> THEN acc
    ELSE IF DigitValue(Head(s)) < 0 THEN -1
    ELSE ScanDigits(Tail(s), acc * 10 + DigitValue(Head(s)))

\* (*big.Int).SetString(s, 10): an optional sign, then one digit or more and
\* nothing else.
SetString(s) ==
    LET neg  == s # <<>> /\ Head(s) = "-"
        sign == s # <<>> /\ Head(s) \in {"-", "+"}
        body == IF sign THEN Tail(s) ELSE s
        abs  == IF body = <<>> THEN -1 ELSE ScanDigits(body, 0)
    IN  IF abs < 0 THEN [ok |-> FALSE, val |-> BigNil]
        ELSE [ok |-> TRUE, val |-> Big(IF neg THEN -abs ELSE abs)]

\* What a new(big.Int) holds after SetString(s, 10) with its result ignored:
\* the parsed value, or one the package leaves undefined.
ParsedValues(s) ==
    IF SetString(s).ok THEN {SetString(s).val} ELSE {Big(0), BigNil}

\* ------------------------------------------------------------- the values
NoUser == [ID |-> 0, Username |-> "", Y1 |-> BigNil, Y2 |-> BigNil,
           CreatedAt |-> 0, UpdatedAt |-> 0]
NoAuthSession == [ID |-> 0, Username |-> "", AuthID |-> NeverId, UserID |-> 0,
                  ChallengeC |-> BigNil, CommitmentR1 |-> BigNil,
                  CommitmentR2 |-> BigNil,
                  CreatedAt |-> 0, ExpiresAt |-> 0, Verified |-> FALSE]
NoActiveSession == [ID |-> 0, SessionID |-> NeverId, UserID |-> 0,
                    CreatedAt |-> 0, ExpiresAt |-> 0, LastActivity |-> 0]

\* A handler's return: err is Nil or the error's text, val the value.
Return(op, arg, err, val) == [op |-> op, arg |-> arg, err |-> err, val |-> val]
NoRet == Return("", Nil, Nil, Nil)

IdleTx == [pc |-> "idle", authID |-> NeverId, ttl |-> 0, began |-> 0,
           userID |-> 0, row |-> Nil]

Init ==
    /\ now = 0
    /\ users = {}
    /\ users_id_seq = 0
    /\ auth_sessions = {}
    /\ auth_sessions_id_seq = 0
    /\ active_sessions = {}
    /\ active_sessions_id_seq = 0
    /\ uuid_seq = 0
    /\ tx = [t \in Txs |-> IdleTx]
    /\ ret = NoRet
    /\ issued = <<>>
    /\ created = <<>>
    /\ registered = <<>>

\* ------------------------------------------------------------------ users
\* An INSERT INTO users that does not check the UNIQUE constraint.
InsertUser_NoUnique(username, y1, y2) ==
    /\ users_id_seq' = users_id_seq + 1
    /\ users' = users \cup {[id |-> users_id_seq + 1, username |-> username,
                             y1 |-> IntString(y1), y2 |-> IntString(y2),
                             created_at |-> now, updated_at |-> now]}
    /\ registered' = (username :> <<y1, y2>>) @@ registered
    /\ ret' = Return("RegisterUser", username, Nil, Nil)

\* INSERT INTO users (username, y1, y2): the SERIAL takes its next value, then
\* UNIQUE(username) refuses a second row of the same username.
InsertUser(username, y1, y2) ==
    /\ users_id_seq' = users_id_seq + 1
    /\ IF \E u \in users : u.username = username
       THEN /\ users' = users
            /\ UNCHANGED registered
            /\ ret' = Return("RegisterUser", username, "failed to register user", Nil)
       ELSE /\ users' = users \cup {[id |-> users_id_seq + 1, username |-> username,
                                     y1 |-> IntString(y1), y2 |-> IntString(y2),
                                     created_at |-> now, updated_at |-> now]}
            /\ registered' = (username :> <<y1, y2>>) @@ registered
            /\ ret' = Return("RegisterUser", username, Nil, Nil)

RegisterUser(username, y1, y2) ==
    /\ InsertUser(username, y1, y2)
    /\ UNCHANGED <<now, auth_sessions, auth_sessions_id_seq, active_sessions,
                   active_sessions_id_seq, uuid_seq, tx, issued, created>>

\* The User values the parse of a users row can give.
UsersOf(row) ==
    {[ID |-> row.id, Username |-> row.username, Y1 |-> v1, Y2 |-> v2,
      CreatedAt |-> row.created_at, UpdatedAt |-> row.updated_at] :
        v1 \in ParsedValues(row.y1), v2 \in ParsedValues(row.y2)}

\* What GetUserByUsername(username) can return in this state.
GetUserByUsernameResults(username) ==
    LET rows == {u \in users : u.username = username}
    IN  IF rows = {}
        THEN {Return("GetUserByUsername", username, "user not found", NoUser)}
        ELSE {Return("GetUserByUsername", username, Nil, v) :
                v \in UNION {UsersOf(row) : row \in rows}}

GetUserByUsername(username) ==
    /\ ret' \in GetUserByUsernameResults(username)
    /\ UNCHANGED <<registered, now, users, users_id_seq, auth_sessions,
                   auth_sessions_id_seq, active_sessions,
                   active_sessions_id_seq, uuid_seq, tx, issued, created>>

\* What GetUserByID(id) can return in this state.
GetUserByIDResults(id) ==
    LET rows == {u \in users : u.id = id}
    IN  IF rows = {}
        THEN {Return("GetUserByID", id, "user not found", NoUser)}
        ELSE {Return("GetUserByID", id, Nil, v) :
                v \in UNION {UsersOf(row) : row \in rows}}

GetUserByID(id) ==
    /\ ret' \in GetUserByIDResults(id)
    /\ UNCHANGED <<registered, now, users, users_id_seq, auth_sessions,
                   auth_sessions_id_seq, active_sessions,
                   active_sessions_id_seq, uuid_seq, tx, issued, created>>

UserExistsResult(username) ==
    Return("UserExists", username, Nil, \E u \in users : u.username = username)

UserExists(username) ==
    /\ ret' = UserExistsResult(username)
    /\ UNCHANGED <<registered, now, users, users_id_seq, auth_sessions,
                   auth_sessions_id_seq, active_sessions,
                   active_sessions_id_seq, uuid_seq, tx, issued, created>>

\* --------------------------------------------------------- auth_sessions
\* The auth ids a caller passes: those CreateAuthSession returned, and one
\* that names no row (as every other string does).
AuthIds == {NeverId} \cup DOMAIN created
\* The session ids a caller passes: those CreateActiveSession returned, and
\* one that names no row.
SessionIds == {NeverId} \cup UNION {issued[a] : a \in DOMAIN issued}

\* The rows a CreateActiveSession in flight has locked with its UPDATE.
Locked(authID) ==
    \E t \in Txs : tx[t].pc \in {"updated", "inserted"} /\ tx[t].authID = authID

\* A row whose verified column defaults to true.
AuthRow_Verified(authID, userID, c, r1, r2, expiresAt) ==
    [id |-> auth_sessions_id_seq + 1, auth_id |-> authID, user_id |-> userID,
     challenge_c |-> IntString(c), commitment_r1 |-> IntString(r1),
     commitment_r2 |-> IntString(r2), created_at |-> now,
     expires_at |-> expiresAt, verified |-> TRUE]

\* The row that the INSERT INTO auth_sessions adds: created_at and verified
\* take their defaults, CURRENT_TIMESTAMP and FALSE.
AuthRow(authID, userID, c, r1, r2, expiresAt) ==
    [id |-> auth_sessions_id_seq + 1, auth_id |-> authID, user_id |-> userID,
     challenge_c |-> IntString(c), commitment_r1 |-> IntString(r1),
     commitment_r2 |-> IntString(r2), created_at |-> now,
     expires_at |-> expiresAt, verified |-> FALSE]

\* A CreateAuthSession that ignores the error of the user lookup and inserts
\* with the zero userID.
CreateAuthSession_NoLookupCheck(username, c, r1, r2, ttl) ==
    /\ LET ids == {u.id : u \in {x \in users : x.username = username}}
           uid == IF ids = {} THEN 0 ELSE CHOOSE i \in ids : TRUE
           authID == uuid_seq + 1
       IN  /\ uuid_seq' = uuid_seq + 1
           /\ auth_sessions_id_seq' = auth_sessions_id_seq + 1
           /\ auth_sessions' = auth_sessions \cup
                  {AuthRow(authID, uid, c, r1, r2, now + ttl)}
           /\ created' = (authID :> [username |-> username, ttl |-> ttl]) @@ created
           /\ issued' = (authID :> {}) @@ issued
           /\ ret' = Return("CreateAuthSession", <<username, ttl>>, Nil, authID)
    /\ UNCHANGED <<registered, now, users, users_id_seq, active_sessions,
                   active_sessions_id_seq, tx>>

\* CreateAuthSession: one transaction of a SELECT of the user's id and an
\* INSERT of the challenge.  Its rows are seen by no other handler before the
\* commit and users are never deleted, so the call takes effect in one step:
\* the lookup fails, or a later statement or the commit fails and the
\* transaction rolls back, or the row is committed.
CreateAuthSession(username, c, r1, r2, ttl) ==
    LET ids == {u.id : u \in {x \in users : x.username = username}}
    IN  /\ \/ /\ ids = {}
              /\ ret' = Return("CreateAuthSession", <<username, ttl>>,
                               "failed to get user ID", "")
              /\ UNCHANGED <<uuid_seq, auth_sessions, auth_sessions_id_seq,
                             created, issued>>
           \/ /\ ids # {}
                        /\ uuid_seq' = uuid_seq + 1
              /\ auth_sessions_id_seq' = auth_sessions_id_seq + 1
              /\ ret' = Return("CreateAuthSession", <<username, ttl>>,
                               "failed to commit transaction", "")
              /\ UNCHANGED <<auth_sessions, created, issued>>
           \/ /\ ids # {}
                        /\ LET authID == uuid_seq + 1
                     userID == CHOOSE i \in ids : TRUE
                 IN  /\ uuid_seq' = uuid_seq + 1
                     /\ auth_sessions_id_seq' = auth_sessions_id_seq + 1
                     /\ auth_sessions' = auth_sessions \cup
                            {AuthRow(authID, userID, c, r1, r2, now + ttl)}
                     /\ created' = (authID :> [username |-> username, ttl |-> ttl])
                                       @@ created
                     /\ issued' = (authID :> {}) @@ issued
                     /\ ret' = Return("CreateAuthSession", <<username, ttl>>, Nil, authID)
        /\ UNCHANGED <<registered, now, users, users_id_seq, active_sessions,
                       active_sessions_id_seq, tx>>

\* The AuthSession scanned from a row; Username is not selected.
AuthSessionOf(row) ==
    [ID |-> row.id, Username |-> "", AuthID |-> row.auth_id,
     UserID |-> row.user_id,
     ChallengeC |-> SetString(row.challenge_c).val,
     CommitmentR1 |-> SetString(row.commitment_r1).val,
     CommitmentR2 |-> SetString(row.commitment_r2).val,
     CreatedAt |-> row.created_at, ExpiresAt |-> row.expires_at,
     Verified |-> row.verified]

\* A lookup whose WHERE clause has no expires_at condition.
GetAuthSessionResult_NoExpiry(authID) ==
    LET rows == {a \in auth_sessions : a.auth_id = authID}
    IN  IF rows = {}
        THEN Return("GetAuthSession", authID,
                    "auth session not found or expired", NoAuthSession)
        ELSE Return("GetAuthSession", authID, Nil,
                    AuthSessionOf(CHOOSE a \in rows : TRUE))

\* A lookup whose WHERE clause reads expires_at >= NOW().
GetAuthSessionResult_AtDeadline(authID) ==
    LET rows == {a \in auth_sessions : a.auth_id = authID /\ a.expires_at >= now}
    IN  IF rows = {}
        THEN Return("GetAuthSession", authID,
                    "auth session not found or expired", NoAuthSession)
        ELSE Return("GetAuthSession", authID, Nil,
                    AuthSessionOf(CHOOSE a \in rows : TRUE))

\* What GetAuthSession(authID) returns in this state:
\* WHERE auth_id = $1 AND expires_at > NOW().
GetAuthSessionResult(authID) ==
    LET rows == {a \in auth_sessions : a.auth_id = authID /\ a.expires_at > now}
    IN  IF rows = {}
        THEN Return("GetAuthSession", authID,
                    "auth session not found or expired", NoAuthSession)
        ELSE Return("GetAuthSession", authID, Nil,
                    AuthSessionOf(CHOOSE a \in rows : TRUE))

\* A lookup that deletes the expired row it finds.
GetAuthSession_DeleteExpired(authID) ==
    /\ ret' = GetAuthSessionResult(authID)
    /\ auth_sessions' = {a \in auth_sessions :
                            ~(a.auth_id = authID /\ a.expires_at <= now)}
    /\ UNCHANGED <<registered, now, users, users_id_seq,
                   auth_sessions_id_seq, active_sessions,
                   active_sessions_id_seq, uuid_seq, tx, issued, created>>

GetAuthSession(authID) ==
    /\ ret' = GetAuthSessionResult(authID)
    /\ UNCHANGED <<registered, now, users, users_id_seq, auth_sessions,
                   auth_sessions_id_seq, active_sessions,
                   active_sessions_id_seq, uuid_seq, tx, issued, created>>

\* ------------------------------------------------------- active_sessions
\* BeginTx of CreateActiveSession(authID, ttl): the transaction's
\* CURRENT_TIMESTAMP is the time it begins.
CAS_Begin(t, authID, ttl) ==
    /\ tx[t].pc = "idle"
    /\ tx' = [tx EXCEPT ![t] = [pc |-> "begun", authID |-> authID, ttl |-> ttl,
                                began |-> now, userID |-> 0, row |-> Nil]]
    /\ ret' = NoRet
    /\ UNCHANGED <<registered, now, users, users_id_seq, auth_sessions,
                   auth_sessions_id_seq, active_sessions,
                   active_sessions_id_seq, uuid_seq, issued, created>>

\* An UPDATE executed outside the transaction: its write is committed at once.
CAS_Update_Autocommit(t) ==
    /\ tx[t].pc = "begun"
    /\ ~Locked(tx[t].authID)
    /\ LET rows == {a \in auth_sessions : a.auth_id = tx[t].authID}
       IN  IF rows = {}
           THEN /\ tx' = [tx EXCEPT ![t] = IdleTx]
                /\ ret' = Return("CreateActiveSession", <<tx[t].authID, tx[t].ttl>>,
                                 "failed to verify auth session", "")
                /\ UNCHANGED auth_sessions
           ELSE /\ tx' = [tx EXCEPT ![t].pc = "updated",
                                    ![t].userID = (CHOOSE a \in rows : TRUE).user_id]
                /\ auth_sessions' = {IF a \in rows THEN [a EXCEPT !.verified = TRUE]
                                     ELSE a : a \in auth_sessions}
                /\ ret' = NoRet
    /\ UNCHANGED <<registered, now, users, users_id_seq, auth_sessions_id_seq,
                   active_sessions, active_sessions_id_seq, uuid_seq, issued,
                   created>>

\* An UPDATE that does not see that no row matched: the Scan error is dropped
\* and the call goes on with the zero userID.
CAS_Update_NoRowCheck(t) ==
    /\ tx[t].pc = "begun"
    /\ ~Locked(tx[t].authID)
    /\ LET rows == {a \in auth_sessions : a.auth_id = tx[t].authID}
       IN  tx' = [tx EXCEPT ![t].pc = "updated",
                            ![t].userID = IF rows = {} THEN 0
                                          ELSE (CHOOSE a \in rows : TRUE).user_id]
    /\ ret' = NoRet
    /\ UNCHANGED <<registered, now, users, users_id_seq, auth_sessions,
                   auth_sessions_id_seq, active_sessions,
                   active_sessions_id_seq, uuid_seq, issued, created>>

\* UPDATE auth_sessions SET verified = true WHERE auth_id = $1 RETURNING
\* user_id.  It waits while another transaction holds the row's lock; with no
\* matching row Scan gives sql.ErrNoRows, the call returns the error and the
\* deferred Rollback ends the transaction.  Otherwise the row is locked and
\* its new value is the transaction's own until the commit.
CAS_Update(t) ==
    /\ tx[t].pc = "begun"
    /\ ~Locked(tx[t].authID)
    /\ LET rows == {a \in auth_sessions : a.auth_id = tx[t].authID}
       IN  IF rows = {}
           THEN /\ tx' = [tx EXCEPT ![t] = IdleTx]
                /\ ret' = Return("CreateActiveSession", <<tx[t].authID, tx[t].ttl>>,
                                 "failed to verify auth session", "")
           ELSE /\ tx' = [tx EXCEPT ![t].pc = "updated",
                                    ![t].userID = (CHOOSE a \in rows : TRUE).user_id]
                /\ ret' = NoRet
    /\ UNCHANGED <<registered, now, users, users_id_seq, auth_sessions,
                   auth_sessions_id_seq, active_sessions,
                   active_sessions_id_seq, uuid_seq, issued, created>>

\* A deadline that leaves the ttl out.
SessionExpiresAt_NoTtl(ttl) == now

\* The session's deadline: time.Now().Add(ttl).
SessionExpiresAt(ttl) == now + ttl

\* uuid.New(), time.Now().Add(ttl) and the INSERT INTO active_sessions, whose
\* created_at and last_activity default to the transaction's
\* CURRENT_TIMESTAMP.  The row is the transaction's own until the commit.
CAS_Insert(t) ==
    /\ tx[t].pc = "updated"
    /\ uuid_seq' = uuid_seq + 1
    /\ active_sessions_id_seq' = active_sessions_id_seq + 1
    /\ tx' = [tx EXCEPT ![t].pc = "inserted",
                        ![t].row = [id |-> active_sessions_id_seq + 1,
                                    session_id |-> uuid_seq + 1,
                                    user_id |-> tx[t].userID,
                                    created_at |-> tx[t].began,
                                    expires_at |-> SessionExpiresAt(tx[t].ttl),
                                    last_activity |-> tx[t].began]]
    /\ ret' = NoRet
    /\ UNCHANGED <<registered, now, users, users_id_seq, auth_sessions,
                   auth_sessions_id_seq, active_sessions, issued, created>>

\* tx.Commit(): the verified flag and the session row become visible together
\* and the row's lock is released.
CAS_Commit(t) ==
    /\ tx[t].pc = "inserted"
    /\ auth_sessions' = {IF a.auth_id = tx[t].authID
                         THEN [a EXCEPT !.verified = TRUE] ELSE a :
                            a \in auth_sessions}
    /\ active_sessions' = active_sessions \cup {tx[t].row}
    /\ issued' = [issued EXCEPT ![tx[t].authID] = @ \cup {tx[t].row.session_id}]
    /\ ret' = Return("CreateActiveSession", <<tx[t].authID, tx[t].ttl>>, Nil,
                     tx[t].row.session_id)
    /\ tx' = [tx EXCEPT ![t] = IdleTx]
    /\ UNCHANGED <<registered, now, users, users_id_seq, auth_sessions_id_seq,
                   active_sessions_id_seq, uuid_seq, created>>

\* A statement or the commit fails (the context is cancelled, the connection
\* is lost): the call returns the error and the deferred Rollback drops what
\* the transaction wrote.
CAS_Fail(t) ==
    /\ tx[t].pc \in {"begun", "updated", "inserted"}
    /\ tx' = [tx EXCEPT ![t] = IdleTx]
    /\ ret' = Return("CreateActiveSession", <<tx[t].authID, tx[t].ttl>>,
                     CASE tx[t].pc = "begun" -> "failed to verify auth session"
                       [] tx[t].pc = "updated" -> "failed to create active session"
                       [] tx[t].pc = "inserted" -> "failed to commit transaction",
                     "")
    /\ UNCHANGED <<registered, now, users, users_id_seq, auth_sessions,
                   auth_sessions_id_seq, active_sessions,
                   active_sessions_id_seq, uuid_seq, issued, created>>

\* What GetActiveSession(sessionID) returns in this state:
\* WHERE session_id = $1 AND expires_at > NOW().
GetActiveSessionResult(sessionID) ==
    LET rows == {s \in active_sessions :
                    s.session_id = sessionID /\ s.expires_at > now}
    IN  IF rows = {}
        THEN Return("GetActiveSession", sessionID,
                    "session not found or expired", NoActiveSession)
        ELSE LET row == CHOOSE s \in rows : TRUE
             IN  Return("GetActiveSession", sessionID, Nil,
                        [ID |-> row.id, SessionID |-> row.session_id,
                         UserID |-> row.user_id, CreatedAt |-> row.created_at,
                         ExpiresAt |-> row.expires_at,
                         LastActivity |-> row.last_activity])

\* A lookup that refreshes the last_activity of the live row it returns.
GetActiveSession_Touches(sessionID) ==
    /\ ret' = GetActiveSessionResult(sessionID)
    /\ active_sessions' = {IF s.session_id = sessionID /\ s.expires_at > now
                           THEN [s EXCEPT !.last_activity = now] ELSE s :
                              s \in active_sessions}
    /\ UNCHANGED <<registered, now, users, users_id_seq, auth_sessions,
                   auth_sessions_id_seq, active_sessions_id_seq, uuid_seq, tx,
                   issued, created>>

GetActiveSession(sessionID) ==
    /\ ret' = GetActiveSessionResult(sessionID)
    /\ UNCHANGED <<registered, now, users, users_id_seq, auth_sessions,
                   auth_sessions_id_seq, active_sessions,
                   active_sessions_id_seq, uuid_seq, tx, issued, created>>

\* A cleanup_expired_sessions() without its second DELETE.
CleanupExpiredSessions_ChallengesOnly ==
    /\ \A a \in auth_sessions : a.expires_at < now => ~Locked(a.auth_id)
    /\ auth_sessions' = {a \in auth_sessions : ~(a.expires_at < now)}
    /\ ret' = Return("CleanupExpiredSessions", Nil, Nil, Nil)
    /\ UNCHANGED <<registered, now, users, users_id_seq, auth_sessions_id_seq,
                   active_sessions, active_sessions_id_seq, uuid_seq, tx,
                   issued, created>>

\* A cleanup_expired_sessions() that deletes in batches of one row: the
\* expired challenge of the lowest id, and the expired session of the lowest
\* id.
CleanupExpiredSessions_OneRow ==
    LET firstOf(rows) == {r \in rows : \A q \in rows : r.id <= q.id}
        oldC == firstOf({a \in auth_sessions : a.expires_at < now})
        oldS == firstOf({s \in active_sessions : s.expires_at < now})
    IN  /\ \A a \in oldC : ~Locked(a.auth_id)
        /\ auth_sessions' = auth_sessions \ oldC
        /\ active_sessions' = active_sessions \ oldS
        /\ ret' = Return("CleanupExpiredSessions", Nil, Nil, Nil)
        /\ UNCHANGED <<registered, now, users, users_id_seq,
                       auth_sessions_id_seq, active_sessions_id_seq, uuid_seq,
                       tx, issued, created>>

\* cleanup_expired_sessions(): both DELETEs, WHERE expires_at <
\* CURRENT_TIMESTAMP.  The DELETE waits for the lock of a row it removes.
CleanupExpiredSessions ==
    /\ \A a \in auth_sessions : a.expires_at < now => ~Locked(a.auth_id)
    /\ auth_sessions' = {a \in auth_sessions : ~(a.expires_at < now)}
    /\ active_sessions' = {s \in active_sessions : ~(s.expires_at < now)}
    /\ ret' = Return("CleanupExpiredSessions", Nil, Nil, Nil)
    /\ UNCHANGED <<registered, now, users, users_id_seq, auth_sessions_id_seq,
                   active_sessions_id_seq, uuid_seq, tx, issued, created>>

\* An update that inserts the row it did not find (INSERT ... ON CONFLICT
\* (session_id) DO UPDATE SET last_activity = NOW()).
UpdateSessionActivity_Upsert(sessionID) ==
    /\ IF \E s \in active_sessions : s.session_id = sessionID
       THEN /\ active_sessions' = {IF s.session_id = sessionID
                                   THEN [s EXCEPT !.last_activity = now] ELSE s :
                                      s \in active_sessions}
            /\ UNCHANGED active_sessions_id_seq
       ELSE /\ active_sessions' = active_sessions \cup
                   {[id |-> active_sessions_id_seq + 1, session_id |-> sessionID,
                     user_id |-> 0, created_at |-> now, expires_at |-> now,
                     last_activity |-> now]}
            /\ active_sessions_id_seq' = active_sessions_id_seq + 1
    /\ ret' = Return("UpdateSessionActivity", sessionID, Nil, Nil)
    /\ UNCHANGED <<registered, now, users, users_id_seq, auth_sessions,
                   auth_sessions_id_seq, uuid_seq, tx, issued, created>>

\* An update that slides the session's window: SET last_activity = NOW(),
\* expires_at = NOW() + the ttl of the session.
UpdateSessionActivity_Sliding(sessionID) ==
    /\ active_sessions' = {IF s.session_id = sessionID
                           THEN [s EXCEPT !.last_activity = now,
                                          !.expires_at = now + 2]
                           ELSE s : s \in active_sessions}
    /\ ret' = Return("UpdateSessionActivity", sessionID, Nil, Nil)
    /\ UNCHANGED <<registered, now, users, users_id_seq, auth_sessions,
                   auth_sessions_id_seq, active_sessions_id_seq, uuid_seq, tx,
                   issued, created>>

\* UPDATE active_sessions SET last_activity = NOW() WHERE session_id = $1.
UpdateSessionActivity(sessionID) ==
    /\ active_sessions' = {IF s.session_id = sessionID
                           THEN [s EXCEPT !.last_activity = now] ELSE s :
                              s \in active_sessions}
    /\ ret' = Return("UpdateSessionActivity", sessionID, Nil, Nil)
    /\ UNCHANGED <<registered, now, users, users_id_seq, auth_sessions,
                   auth_sessions_id_seq, active_sessions_id_seq, uuid_seq, tx,
                   issued, created>>

\* UpdateSessionActivity as the database runs it beside other statements:
\* NOW() is the time at which the statement's transaction starts,
USA_Begin(t, sessionID) ==
    /\ tx[t].pc = "idle"
    /\ tx' = [tx EXCEPT ![t] = [pc |-> "touch", authID |-> NeverId, ttl |-> 0,
                                began |-> now, userID |-> 0,
                                row |-> [session_id |-> sessionID]]]
    /\ ret' = NoRet
    /\ UNCHANGED <<registered, now, users, users_id_seq, auth_sessions,
                   auth_sessions_id_seq, active_sessions,
                   active_sessions_id_seq, uuid_seq, issued, created>>

\* and the row is written, with that time, when the statement gets to it:
\* after the statements that wrote the row before it, whenever they started.
USA_Update(t) ==
    /\ tx[t].pc = "touch"
    /\ active_sessions' = {IF s.session_id = tx[t].row.session_id
                           THEN [s EXCEPT !.last_activity = tx[t].began] ELSE s :
                              s \in active_sessions}
    /\ ret' = Return("UpdateSessionActivity", tx[t].row.session_id, Nil, Nil)
    /\ tx' = [tx EXCEPT ![t] = IdleTx]
    /\ UNCHANGED <<registered, now, users, users_id_seq, auth_sessions,
                   auth_sessions_id_seq, active_sessions_id_seq, uuid_seq,
                   issued, created>>

\* A delete that reports the row it did not find (RowsAffected() = 0) as an
\* error.
DeleteSession_ErrNoRows(sessionID) ==
    /\ active_sessions' = {s \in active_sessions : s.session_id # sessionID}
    /\ ret' = Return("DeleteSession", sessionID,
                     IF \E s \in active_sessions : s.session_id = sessionID
                     THEN Nil ELSE "session not found", Nil)
    /\ UNCHANGED <<registered, now, users, users_id_seq, auth_sessions,
                   auth_sessions_id_seq, active_sessions_id_seq, uuid_seq, tx,
                   issued, created>>

\* DELETE FROM active_sessions WHERE session_id = $1.
DeleteSession(sessionID) ==
    /\ active_sessions' = {s \in active_sessions : s.session_id # sessionID}
    /\ ret' = Return("DeleteSession", sessionID, Nil, Nil)
    /\ UNCHANGED <<registered, now, users, users_id_seq, auth_sessions,
                   auth_sessions_id_seq, active_sessions_id_seq, uuid_seq, tx,
                   issued, created>>

\* Time passes.
Tick ==
    /\ now' = now + 1
    /\ ret' = NoRet
    /\ UNCHANGED <<registered, users, users_id_seq, auth_sessions,
                   auth_sessions_id_seq, active_sessions,
                   active_sessions_id_seq, uuid_seq, tx, issued, created>>

\* ------------------------------------------------------ the specifications
\* The handlers of the users table alone, over every commitment value.
NextUsers ==
    \/ /\ users_id_seq < MaxUserSeq
       /\ \E u \in Usernames, y1, y2 \in Commitments : RegisterUser(u, y1, y2)
    \/ \E u \in Usernames : GetUserByUsername(u)
    \/ \E id \in 1..MaxUserSeq : GetUserByID(id)
    \/ \E u \in Usernames : UserExists(u)

SpecUsers == Init /\ [][NextUsers]_vars

\* The store once alice has registered, at time 0.
InitStore ==
    /\ now = 0
    /\ users = {[id |-> 1, username |-> "alice", y1 |-> IntString(Big(7)),
                 y2 |-> IntString(Big(105)), created_at |-> 0, updated_at |-> 0]}
    /\ users_id_seq = 1
    /\ auth_sessions = {}
    /\ auth_sessions_id_seq = 0
    /\ active_sessions = {}
    /\ active_sessions_id_seq = 0
    /\ uuid_seq = 0
    /\ tx = [t \in Txs |-> IdleTx]
    /\ ret = NoRet
    /\ issued = <<>>
    /\ created = <<>>
    /\ registered = ("alice" :> <<Big(7), Big(105)>>)

\* The handlers of challenges and sessions, one CreateActiveSession in flight
\* at a time.
Next ==
    \/ /\ uuid_seq < MaxUuid
       /\ \E u \in Usernames, tr \in Transcripts, ttl \in ChallengeTtls :
             CreateAuthSession(u, tr[1], tr[2], tr[3], ttl)
    \/ \E a \in AuthIds : GetAuthSession(a)
    \/ \E a \in AuthIds, ttl \in SessionTtls : CAS_Begin(1, a, ttl)
    \/ CAS_Update(1)
    \/ uuid_seq < MaxUuid /\ CAS_Insert(1)
    \/ CAS_Commit(1)
    \/ CAS_Fail(1)
    \/ \E s \in SessionIds : GetActiveSession(s)
    \/ CleanupExpiredSessions
    \/ \E s \in SessionIds : UpdateSessionActivity(s)
    \/ \E s \in SessionIds : DeleteSession(s)
    \/ now < MaxTime /\ Tick

\* The writers of challenges and sessions with CreateActiveSession calls in
\* flight together, at one time of the clock.
NextVerify ==
    \/ /\ uuid_seq < MaxVerifyUuid
       /\ \E u \in Usernames, tr \in Transcripts, ttl \in VerifyChallengeTtls :
             CreateAuthSession(u, tr[1], tr[2], tr[3], ttl)
    \/ \E t \in Txs, a \in AuthIds, ttl \in VerifySessionTtls : CAS_Begin(t, a, ttl)
    \/ \E t \in Txs : CAS_Update(t)
    \/ uuid_seq < MaxVerifyUuid /\ \E t \in Txs : CAS_Insert(t)
    \/ \E t \in Txs : CAS_Commit(t)
    \/ \E t \in Txs : CAS_Fail(t)
    \/ CleanupExpiredSessions

SpecVerify == InitStore /\ [][NextVerify]_vars

\* Registrations beside the calls that put challenges and sessions in the
\* other tables.
NextRegister ==
    \/ /\ users_id_seq < MaxUserSeq
       /\ \E u \in Usernames, y1, y2 \in RegisterCommitments :
             RegisterUser(u, y1, y2)
    \/ \E u \in Usernames : UserExists(u)
    \/ /\ uuid_seq < MaxUuid
       /\ \E u \in Usernames, tr \in Transcripts, ttl \in VerifyChallengeTtls :
             CreateAuthSession(u, tr[1], tr[2], tr[3], ttl)
    \/ \E a \in AuthIds, ttl \in VerifySessionTtls : CAS_Begin(1, a, ttl)
    \/ CAS_Update(1)
    \/ uuid_seq < MaxUuid /\ CAS_Insert(1)
    \/ CAS_Commit(1)
    \/ CAS_Fail(1)

SpecRegister == InitStore /\ [][NextRegister]_vars

\* The five reads beside the calls that create challenges and sessions, the
\* clock and the sweep.
NextReads ==
    \/ \E u \in Usernames : GetUserByUsername(u)
    \/ \E id \in 1..MaxUserSeq : GetUserByID(id)
    \/ \E u \in Usernames : UserExists(u)
    \/ /\ uuid_seq < MaxUuid
       /\ \E u \in Usernames, tr \in Transcripts, ttl \in VerifyChallengeTtls :
             CreateAuthSession(u, tr[1], tr[2], tr[3], ttl)
    \/ \E a \in AuthIds : GetAuthSession(a)
    \/ \E a \in AuthIds, ttl \in SessionTtls : CAS_Begin(1, a, ttl)
    \/ CAS_Update(1)
    \/ uuid_seq < MaxUuid /\ CAS_Insert(1)
    \/ CAS_Commit(1)
    \/ CAS_Fail(1)
    \/ \E s \in SessionIds : GetActiveSession(s)
    \/ CleanupExpiredSessions
    \/ now < MaxTime /\ Tick

SpecReads == InitStore /\ [][NextReads]_vars

\* UpdateSessionActivity calls that run together on the sessions of one
\* CreateActiveSession at a time, while the clock ticks.
NextTouch ==
    \/ /\ uuid_seq < MaxUuid
       /\ \E tr \in Transcripts, ttl \in VerifySessionTtls :
             CreateAuthSession("alice", tr[1], tr[2], tr[3], ttl)
    \/ \E a \in AuthIds, ttl \in SessionTtls : CAS_Begin(1, a, ttl)
    \/ CAS_Update(1)
    \/ uuid_seq < MaxUuid /\ CAS_Insert(1)
    \/ CAS_Commit(1)
    \/ \E t \in Txs, s \in SessionIds : USA_Begin(t, s)
    \/ \E t \in Txs : USA_Update(t)
    \/ \E s \in SessionIds : GetActiveSession(s)
    \/ now < MaxTime /\ Tick

SpecTouch == InitStore /\ [][NextTouch]_vars

Spec == InitStore /\ [][Next]_vars

\* ------------------------------------------------------------- properties
\* The ids of the challenges whose verified flag is visible in table tbl.
Verified(tbl) == {c.auth_id : c \in {x \in tbl : x.verified}}

\* The last step returned from CreateActiveSession.
ReturnedCAS(r) == r.op = "CreateActiveSession"

\* C1: over any interleaving of CreateActiveSession calls on one authId, at
\* most one call returns a session id; every other call fails and inserts no
\* session.
C1_AtMostOneSessionPerChallenge ==
    \A a \in DOMAIN issued : Cardinality(issued[a]) <= 1

\* C2: a CreateActiveSession on a challenge whose expires_at is not later than
\* the time of the call fails: a call that returns a session id began (the
\* session's created_at) before its challenge's expires_at.
C2_ExpiredChallengeRejected ==
    (ReturnedCAS(ret) /\ ret.err = Nil) =>
        \A c \in auth_sessions, s \in active_sessions :
            (c.auth_id = ret.arg[1] /\ s.session_id = ret.val) =>
                c.expires_at > s.created_at

\* C3: a CreateActiveSession that returns while no auth_sessions row has its
\* authId returns an error, and the active_sessions rows are those of before.
C3_NoChallengeNoSession ==
    [][(ReturnedCAS(ret') /\ ~\E c \in auth_sessions : c.auth_id = ret'.arg[1])
          => (ret'.err # Nil /\ active_sessions' = active_sessions)]_vars

\* A call on a challenge that the sweep has removed has failed, while a
\* session of an earlier call is still there.
C3_Witness ==
    /\ ReturnedCAS(ret)
    /\ ret.err = "failed to verify auth session"
    /\ ret.arg[1] # NeverId
    /\ ~\E c \in auth_sessions : c.auth_id = ret.arg[1]
    /\ active_sessions # {}

\* C4: CreateActiveSession is all or nothing.  A call that returns an error
\* leaves the committed challenges and sessions as they were; a call that
\* returns a session id makes the verified flag and the new session visible
\* in the same step; and no other step makes a verified flag or a new session
\* visible.
C4_AllOrNothing ==
    [][/\ (ReturnedCAS(ret') /\ ret'.err # Nil) =>
              (auth_sessions' = auth_sessions /\ active_sessions' = active_sessions)
       /\ (ReturnedCAS(ret') /\ ret'.err = Nil) =>
              /\ ret'.arg[1] \in Verified(auth_sessions')
              /\ \E s \in active_sessions' \ active_sessions :
                     s.session_id = ret'.val
       /\ (\/ ~(Verified(auth_sessions') \subseteq Verified(auth_sessions))
           \/ ~(active_sessions' \subseteq active_sessions)) =>
              (ReturnedCAS(ret') /\ ret'.err = Nil)]_vars

\* A call has failed at its commit, after its UPDATE and its INSERT, while
\* another call holds the lock of a challenge: the flag of the failed call's
\* challenge is still false and no session is there.
C4_Witness ==
    /\ ReturnedCAS(ret)
    /\ ret.err = "failed to commit transaction"
    /\ \E c \in auth_sessions : c.auth_id = ret.arg[1] /\ ~c.verified
    /\ active_sessions = {}
    /\ \E t \in Txs : tx[t].pc = "updated"

\* C5: a CreateAuthSession with a username that has no users row returns an
\* error and leaves the auth_sessions rows as they were.
C5_UnknownUserNoChallenge ==
    [][(ret'.op = "CreateAuthSession"
          /\ ~\E u \in users : u.username = ret'.arg[1])
          => (ret'.err # Nil /\ auth_sessions' = auth_sessions)]_vars

\* CreateAuthSession for bob, who never registered, has failed while a
\* challenge of alice is in the table.
C5_Witness ==
    /\ ret.op = "CreateAuthSession"
    /\ ret.arg[1] = "bob"
    /\ ret.err = "failed to get user ID"
    /\ auth_sessions # {}

\* C6: GetAuthSession and GetActiveSession return a row if and only if it
\* exists with expires_at later than now, and what they return for an id
\* whose row has expired is what they return for an id that never existed.
C6_ExpiredIsAbsent ==
    /\ \A a \in AuthIds :
          LET r    == GetAuthSessionResult(a)
              live == {c \in auth_sessions : c.auth_id = a /\ c.expires_at > now}
          IN  /\ r.err = Nil <=> live # {}
              /\ r.err = Nil =>
                    \E c \in live : /\ r.val.AuthID = a
                                    /\ r.val.ExpiresAt = c.expires_at
                                    /\ r.val.Verified = c.verified
              /\ r.err # Nil =>
                    /\ r.err = GetAuthSessionResult(NeverId).err
                    /\ r.val = GetAuthSessionResult(NeverId).val
    /\ \A i \in SessionIds :
          LET r    == GetActiveSessionResult(i)
              live == {s \in active_sessions :
                          s.session_id = i /\ s.expires_at > now}
          IN  /\ r.err = Nil <=> live # {}
              /\ r.err = Nil =>
                    \E s \in live : /\ r.val.SessionID = i
                                    /\ r.val.ExpiresAt = s.expires_at
              /\ r.err # Nil =>
                    /\ r.err = GetActiveSessionResult(NeverId).err
                    /\ r.val = GetActiveSessionResult(NeverId).val
    /\ ret.op = "GetAuthSession" => ret = GetAuthSessionResult(ret.arg)
    /\ ret.op = "GetActiveSession" => ret = GetActiveSessionResult(ret.arg)

\* GetActiveSession has returned not-found for a session whose expired row is
\* still in the table, as is the expired row of a challenge.
C6_Witness ==
    /\ ret.op = "GetActiveSession"
    /\ ret.err # Nil
    /\ \E s \in active_sessions : s.session_id = ret.arg /\ s.expires_at <= now
    /\ \E c \in auth_sessions : c.expires_at <= now

\* C7: a challenge created with a ttl of zero or less is never returned by
\* GetAuthSession, from the time of its creation on.
C7_ZeroTtlUnreachable ==
    /\ \A a \in DOMAIN created :
          created[a].ttl <= 0 => GetAuthSessionResult(a).err # Nil
    /\ (ret.op = "GetAuthSession" /\ ret.arg \in DOMAIN created
          /\ created[ret.arg].ttl <= 0) => ret.err # Nil

\* GetAuthSession has returned not-found for a challenge of ttl 0 at the time
\* of its creation, its row being in the table.
C7_Witness ==
    /\ ret.op = "GetAuthSession"
    /\ ret.err # Nil
    /\ ret.arg \in DOMAIN created
    /\ created[ret.arg].ttl = 0
    /\ \E c \in auth_sessions : c.auth_id = ret.arg /\ c.created_at = now

\* The id of the users row of a username.
UserIdOf(username) ==
    (CHOOSE u \in users : u.username = username).id

\* C8: the happy path.  A challenge of a registered user is returned by
\* GetAuthSession before its expiry, with the user's id and verified = false
\* until a CreateActiveSession on it has succeeded and verified = true from
\* then on; a CreateActiveSession(authId, ttl) that returns a session id has
\* inserted a session of the challenge's user whose expires_at is ttl after a
\* time of the call, and GetActiveSession returns that session until its
\* expiry.
C8_HappyPath ==
    /\ \A a \in DOMAIN created :
          (\E c \in auth_sessions : c.auth_id = a /\ c.expires_at > now) =>
              LET r == GetAuthSessionResult(a)
              IN  /\ r.err = Nil
                  /\ r.val.Verified <=> issued[a] # {}
                  /\ r.val.UserID = UserIdOf(created[a].username)
    /\ \A a \in DOMAIN issued : \A i \in issued[a] :
          LET r == GetActiveSessionResult(i)
          IN  r.err = Nil => r.val.UserID = UserIdOf(created[a].username)
    /\ (ReturnedCAS(ret) /\ ret.err = Nil) =>
          \E s \in active_sessions :
              /\ s.session_id = ret.val
              /\ s.user_id = UserIdOf(created[ret.arg[1]].username)
              /\ s.created_at <= s.expires_at - ret.arg[2]
              /\ s.expires_at - ret.arg[2] <= now
              /\ s.expires_at > now =>
                    LET r == GetActiveSessionResult(ret.val)
                    IN  /\ r.err = Nil
                        /\ r.val.ExpiresAt = s.expires_at
                        /\ r.val.UserID = s.user_id

\* GetAuthSession has returned a challenge with verified = true while the
\* session that its CreateActiveSession created with ttl 2 is live.
C8_Witness ==
    /\ ret.op = "GetAuthSession"
    /\ ret.err = Nil
    /\ ret.val.Verified
    /\ \E s \in active_sessions :
          /\ s.session_id \in issued[ret.arg]
          /\ s.expires_at > now
          /\ s.expires_at = s.created_at + 2

\* C9: a RegisterUser with a username that has a users row fails and leaves
\* the users, auth_sessions and active_sessions rows as they were; no two
\* users rows have the same username.
C9_DuplicateUserRejected ==
    /\ [](\A u1, u2 \in users : u1.username = u2.username => u1 = u2)
    /\ [][(ret'.op = "RegisterUser"
             /\ \E u \in users : u.username = ret'.arg)
             => (ret'.err # Nil /\ UNCHANGED tables)]_vars

\* A second RegisterUser of alice, with other commitments, has failed while
\* a challenge and a session are in their tables.
C9_Witness ==
    /\ ret.op = "RegisterUser"
    /\ ret.arg = "alice"
    /\ ret.err = "failed to register user"
    /\ users_id_seq = 2
    /\ auth_sessions # {}
    /\ active_sessions # {}

\* C10: after a successful RegisterUser(username, y1, y2), whatever calls
\* follow, GetUserByUsername(username) returns the y1 and the y2 registered
\* (for each of the two that is a value, not a nil pointer).
C10_CommitmentsRoundTrip ==
    /\ \A u \in DOMAIN registered : \A r \in GetUserByUsernameResults(u) :
          /\ r.err = Nil
          /\ r.val.Username = u
          /\ registered[u][1] # BigNil => r.val.Y1 = registered[u][1]
          /\ registered[u][2] # BigNil => r.val.Y2 = registered[u][2]
    /\ (ret.op = "GetUserByUsername" /\ ret.arg \in DOMAIN registered) =>
          ret \in GetUserByUsernameResults(ret.arg)

\* GetUserByUsername has returned the negative y1 and the three-digit y2 that
\* bob registered after alice.
C10_Witness ==
    /\ ret.op = "GetUserByUsername"
    /\ ret.arg = "bob"
    /\ ret.err = Nil
    /\ ret.val.Y1 = Big(-12)
    /\ ret.val.Y2 = Big(105)
    /\ ret.val.ID = 2

\* The store: the three tables and their sequences.
store == <<users, users_id_seq, auth_sessions, auth_sessions_id_seq,
           active_sessions, active_sessions_id_seq>>

\* C11: when CleanupExpiredSessions returns, every auth_sessions and
\* active_sessions row whose expires_at was earlier than the time of the sweep
\* is gone, every row whose expires_at was not earlier is there as it was, no
\* row is new, and the users rows are those of before.
C11_SweepFrame ==
    [][ret'.op = "CleanupExpiredSessions" =>
          /\ \A c \in auth_sessions :
                IF c.expires_at < now THEN \A d \in auth_sessions' : d.id # c.id
                ELSE c \in auth_sessions'
          /\ \A s \in active_sessions :
                IF s.expires_at < now THEN \A d \in active_sessions' : d.id # s.id
                ELSE s \in active_sessions'
          /\ auth_sessions' \subseteq auth_sessions
          /\ active_sessions' \subseteq active_sessions
          /\ users' = users]_vars

\* The sweep has returned at time 1: the session that expired at 0 is gone
\* and the challenge that expires at 1 is still in its table.
C11_Witness ==
    /\ ret.op = "CleanupExpiredSessions"
    /\ now = 1
    /\ \E a \in DOMAIN issued : issued[a] # {}
    /\ active_sessions = {}
    /\ \E c \in auth_sessions : c.expires_at = now

\* C12: a CleanupExpiredSessions that runs right after another, at the same
\* time of the clock and with no other call between them, leaves the whole
\* store as the first one left it.
C12_SweepIdempotent ==
    [][(ret.op = "CleanupExpiredSessions" /\ ret'.op = "CleanupExpiredSessions"
          /\ now' = now) => UNCHANGED store]_vars

\* The sweep has returned after removing the two expired challenges; run
\* again, it finds nothing to remove.
C12_Witness ==
    /\ ret.op = "CleanupExpiredSessions"
    /\ Cardinality(DOMAIN created) = 2
    /\ auth_sessions = {}
    /\ \A a \in DOMAIN created : created[a].ttl < 0

C15_ParseFailureIsError ==
    (ret.op \in {"GetUserByUsername", "GetUserByID"} /\ ret.err = Nil) =>
        \A u \in users :
            u.id = ret.val.ID => (SetString(u.y1).ok /\ SetString(u.y2).ok)

\* C16: an auth_sessions row is inserted with verified = false; its verified
\* flag changes only from false to true, and only in the step in which a
\* CreateActiveSession on its auth id returns a session id; and no step
\* changes another field of a row that stays in the table.
C16_VerifiedMonotone ==
    [][/\ \A d \in auth_sessions' :
             (~\E c \in auth_sessions : c.auth_id = d.auth_id) => ~d.verified
       /\ \A c \in auth_sessions, d \in auth_sessions' :
             c.auth_id = d.auth_id =>
                /\ [d EXCEPT !.verified = c.verified] = c
                /\ c.verified => d.verified
                /\ c.verified # d.verified =>
                      /\ ReturnedCAS(ret')
                      /\ ret'.err = Nil
                      /\ ret'.arg[1] = c.auth_id]_vars

\* A CreateActiveSession has returned a session id at time 1 on a challenge
\* created at time 0: the challenge's flag is true, its other fields are
\* those of its creation.
C16_Witness ==
    /\ ReturnedCAS(ret)
    /\ ret.err = Nil
    /\ now = 1
    /\ \E c \in auth_sessions :
          /\ c.auth_id = ret.arg[1]
          /\ c.verified
          /\ c.created_at = 0
          /\ c.expires_at = created[c.auth_id].ttl

\* The names of the read handlers.
ReadOps == {"GetUserByUsername", "GetUserByID", "UserExists",
            "GetAuthSession", "GetActiveSession"}

\* C17: GetUserByUsername, GetUserByID, UserExists, GetAuthSession and
\* GetActiveSession leave the store, the calls in flight and the clock as they
\* were; a lookup of a challenge or a session whose row has expired returns
\* not-found and the row is still in its table after it.
C17_ReadsChangeNothing ==
    [][ret'.op \in ReadOps =>
          /\ UNCHANGED <<store, uuid_seq, tx, now>>
          /\ (ret'.op = "GetAuthSession"
                /\ \E c \in auth_sessions :
                      c.auth_id = ret'.arg /\ c.expires_at <= now)
                => (ret'.err # Nil
                      /\ \E c \in auth_sessions' : c.auth_id = ret'.arg)
          /\ (ret'.op = "GetActiveSession"
                /\ \E s \in active_sessions :
                      s.session_id = ret'.arg /\ s.expires_at <= now)
                => (ret'.err # Nil
                      /\ \E s \in active_sessions' : s.session_id = ret'.arg)]_vars

\* GetAuthSession has returned not-found for a challenge that expired at
\* time 0 and whose verified row is still in the table at time 1, beside the
\* session made from it.
C17_Witness ==
    /\ ret.op = "GetAuthSession"
    /\ ret.err # Nil
    /\ now = 1
    /\ \E c \in auth_sessions :
          c.auth_id = ret.arg /\ c.expires_at <= 0 /\ c.verified
    /\ active_sessions # {}

\* C18: the last_activity of an active_sessions row never decreases, and it
\* changes only in the step of an UpdateSessionActivity on the row's session
\* id; a row enters the table with last_activity equal to its created_at.
C18_LastActivityMonotone ==
    [][/\ \A s \in active_sessions, d \in active_sessions' :
             s.session_id = d.session_id =>
                /\ d.last_activity >= s.last_activity
                /\ d.last_activity # s.last_activity =>
                      (ret'.op = "UpdateSessionActivity"
                         /\ ret'.arg = s.session_id)
       /\ \A d \in active_sessions' :
             (~\E s \in active_sessions : s.session_id = d.session_id)
                => d.last_activity = d.created_at]_vars

\* UpdateSessionActivity has returned at time 1 on a session created at time
\* 0: the row's last_activity is 1.
C18_Witness ==
    /\ ret.op = "UpdateSessionActivity"
    /\ \E s \in active_sessions :
          /\ s.session_id = ret.arg
          /\ s.created_at = 0
          /\ s.last_activity = 1

\* C19: the expires_at of a row is the time of its creation (the time.Now()
\* of the creating call, which lies between the call's start and its return)
\* plus the ttl of the call, and no step changes the expires_at of a row, so
\* an id that GetAuthSession or GetActiveSession answers with not-found is
\* answered with not-found ever after.
C19_AbsoluteDeadline ==
    [][/\ \A d \in auth_sessions' :
             (~\E c \in auth_sessions : c.id = d.id) =>
                /\ ret'.op = "CreateAuthSession"
                /\ ret'.val = d.auth_id
                /\ d.expires_at = now + ret'.arg[2]
       /\ \A d \in active_sessions' :
             (~\E s \in active_sessions : s.id = d.id) =>
                /\ ReturnedCAS(ret')
                /\ ret'.val = d.session_id
                /\ d.created_at <= d.expires_at - ret'.arg[2]
                /\ d.expires_at - ret'.arg[2] <= now
       /\ \A c \in auth_sessions, d \in auth_sessions' :
             c.id = d.id => d.expires_at = c.expires_at
       /\ \A s \in active_sessions, d \in active_sessions' :
             s.id = d.id => d.expires_at = s.expires_at
       /\ \A a \in DOMAIN created :
             GetAuthSessionResult(a).err # Nil
                => GetAuthSessionResult(a)'.err # Nil
       /\ \A a \in DOMAIN issued : \A i \in issued[a] :
             GetActiveSessionResult(i).err # Nil
                => GetActiveSessionResult(i)'.err # Nil]_vars

\* GetActiveSession has returned not-found at time 1 for a session that
\* expired at time 0 and that UpdateSessionActivity touched at time 1: its
\* expires_at is that of its creation.
C19_Witness ==
    /\ ret.op = "GetActiveSession"
    /\ ret.err # Nil
    /\ \E s \in active_sessions :
          /\ s.session_id = ret.arg
          /\ s.last_activity = 1
          /\ s.created_at = 0
          /\ s.expires_at = 0

\* C20: the lookups and the sweep agree on what is expired.  When
\* CleanupExpiredSessions runs at a time t, it removes every row that
\* GetAuthSession or GetActiveSession answers with not-found at t, and keeps
\* every row that they return at t.
C20_ReadSweepAgree ==
    /\ [](ret.op = "CleanupExpiredSessions" =>
            /\ \A c \in auth_sessions :
                  GetAuthSessionResult(c.auth_id).err = Nil
            /\ \A s \in active_sessions :
                  GetActiveSessionResult(s.session_id).err = Nil)
    /\ [][ret'.op = "CleanupExpiredSessions" =>
            /\ \A c \in auth_sessions :
                  GetAuthSessionResult(c.auth_id).err = Nil
                     => c \in auth_sessions'
            /\ \A s \in active_sessions :
                  GetActiveSessionResult(s.session_id).err = Nil
                     => s \in active_sessions']_vars

=============================================================================
